---- MODULE Spec2Model ----
(***************************************************************************)
(* State-machine model of src/script.js: the preloader and its image-load  *)
(* wait, the click-to-enlarge lightbox, the modal dialog and the           *)
(* initialisation trigger.  One action per event handler or timer/timeline *)
(* callback; every handler runs to completion (single UI thread).          *)
(*                                                                         *)
(* Library behaviour taken as given (GSAP 3, DOM):                          *)
(*  - a tween or timeline whose target is null or an empty list is built   *)
(*    and played without raising;                                          *)
(*  - timeline.play(0) restarts the timeline; timeline.then(f) stores f in *)
(*    a single slot that is called when the timeline completes;            *)
(*  - a listener added with {once: true} is removed when it is first       *)
(*    invoked, whatever the event's key;                                   *)
(*  - calling a method on null raises a TypeError;                         *)
(*  - gsap.to tweens do not overwrite one another (overwrite: false is the *)
(*    default): tweens of one target run side by side, each frame renders  *)
(*    them in the order they were started, so the one started last sets    *)
(*    the value, and a tween's last render sets its end values.            *)
(***************************************************************************)
EXTENDS Naturals, FiniteSets, Sequences

\* ------------------------------------------------------------------ bounds
\* Lightbox overlays that can be created in one behaviour.
MaxLb == 2
\* Close timelines of one overlay that can be in flight together.
MaxOut == 2
\* console.warn calls counted.
MaxWarn == 1
\* Calls of the wait promise's resolve() counted.
MaxResolve == 2
\* Hover tweens of the button that can be in flight together.
MaxTweens == 3
\* Calls of buildTimelines counted.
MaxBuilds == 2

\* ------------------------------------------------------------- page markup
\* The elements the script queries for (script.js:63-66, 137-138, 226, 244-250,
\* 297, 304).  modalBackdrop and modalContent come with the modal root.
\* closeBtn is a <button class="modal-close-btn">: inside the modal content
\* when the modal is present, where it is the modal's only a/button/input/
\* textarea/select descendant; elsewhere on the page when the modal is absent.
Elements ==
  {"preloader", "letters", "eventCard", "poster", "posterWrap",
   "modal", "closeBtn", "openBtn", "btn"}

AnyPage == SUBSET Elements

\* Pages on which only the elements the interactive features query for vary.
Decor == {"preloader", "letters", "eventCard", "btn"}

InteractivePages == {d \in AnyPage : Decor \subseteq d}

VARIABLES
  dom,            \* elements present in the document (fixed markup)
  scrollTrigger,  \* window.ScrollTrigger is defined
  readyState,     \* document.readyState
  dclFired,       \* DOMContentLoaded has been dispatched
  pc,             \* position of the script: "parse", "listening", "timer", "done"
  initCalls,      \* calls of initAll
  initDone,       \* initialisers of initAll that returned
  raised,         \* an uncaught exception was raised by the script
  listeners,      \* listeners the initialisers registered
  img,            \* #posterImage: [complete, naturalWidth]
  wait,           \* closure of waitForImageLoad: [fired, onLoad, onError, timer]
  resolveCalls,   \* calls of the wait promise's resolve()
  posterTween,    \* "none", "paused", "playing"
  mainTL,         \* preloader timeline: "none", "playing", "done"
  preloaderHidden,\* preloader.style.display = 'none' was set
  nextLb,         \* overlays created so far
  doc,            \* overlays (.tric-lightbox) that are children of body
  escArmed,       \* overlays whose escClose keydown listener is registered
  outTL,          \* per overlay, close timelines in flight
  isOpen,         \* #detailsModal carries class is-open
  ariaHidden,     \* #detailsModal aria-hidden: "true" / "false"
  openTL,         \* "null", "paused", "playing", "done"
  closeTL,        \* "null", "paused", "playing", "done"
  warned,         \* console.warn('Modal not found') calls
  focus,          \* document.activeElement: "body", "outside", "closeBtn", "modalContent"
  builds,         \* calls of buildTimelines that created timelines
  lastReq,        \* history: the last call of openModal/closeModal that found the
                  \* modal: "none", "open", "close"
  hovering,       \* the pointer is over the .btn element
  tweens,         \* hover tweens of the button in flight, in start order: [to, left]
  btnPose         \* the button's y and scale: "rest" (0, 1), "lifted" (-4, 1.01), "moving"

pageVars  == <<dom, scrollTrigger>>
bootVars  == <<readyState, dclFired, pc, initCalls>>
initVars  == <<initDone, raised, listeners>>
imgVars   == <<img, wait, resolveCalls, posterTween>>
tlVars    == <<mainTL, preloaderHidden>>
lbVars    == <<nextLb, doc, escArmed, outTL>>
modalVars == <<isOpen, ariaHidden, openTL, closeTL, warned, focus, builds, lastReq>>
btnVars   == <<hovering, tweens, btnPose>>

vars == <<dom, scrollTrigger, readyState, dclFired, pc, initCalls, initDone, raised,
          listeners, img, wait, resolveCalls, posterTween, mainTL,
          preloaderHidden, nextLb, doc, escArmed, outTL, isOpen, ariaHidden,
          openTL, closeTL, warned, focus, builds, lastReq, hovering, tweens,
          btnPose>>

LbIds == 1..MaxLb

\* ------------------------------------------------------- waitForImageLoad
NoWait == [fired |-> FALSE, onLoad |-> FALSE, onError |-> FALSE, timer |-> "none"]

\* A cleanup that removes the listeners and leaves the timer running.
cleanup_listenersOnly(w) == [w EXCEPT !.onLoad = FALSE, !.onError = FALSE]

\* script.js:42-46
cleanup(w) ==
  [w EXCEPT !.onLoad = FALSE, !.onError = FALSE,
            !.timer = IF @ = "pending" THEN "cleared" ELSE @]

\* script.js:30-35; the result says whether resolve() was called
onLoad(w) ==
  IF w.fired THEN [wait |-> w, resolve |-> FALSE]
  ELSE [wait |-> cleanup([w EXCEPT !.fired = TRUE]), resolve |-> TRUE]

\* script.js:36-41
onError(w) ==
  IF w.fired THEN [wait |-> w, resolve |-> FALSE]
  ELSE [wait |-> cleanup([w EXCEPT !.fired = TRUE]), resolve |-> TRUE]

\* A bare setTimeout(resolve, timeout): no fired check, no cleanup.
onTimeout_bare(w) == [wait |-> w, resolve |-> TRUE]

\* script.js:49-55, the timer callback; w.timer is already "fired"
onTimeout(w) ==
  IF ~w.fired THEN [wait |-> cleanup([w EXCEPT !.fired = TRUE]), resolve |-> TRUE]
  ELSE [wait |-> w, resolve |-> FALSE]

\* A wait without the fallback timer.
waitForImageLoad_noTimer(present, im) ==
  IF ~present THEN [wait |-> NoWait, resolve |-> TRUE]
  ELSE IF im.complete /\ im.naturalWidth # 0 THEN [wait |-> NoWait, resolve |-> TRUE]
  ELSE [wait |-> [fired |-> FALSE, onLoad |-> TRUE, onError |-> TRUE,
                  timer |-> "none"],
        resolve |-> FALSE]

\* script.js:25-57: the state the executor leaves, and whether it resolved at once
waitForImageLoad(present, im) ==
  IF ~present THEN [wait |-> NoWait, resolve |-> TRUE]
  ELSE IF im.complete /\ im.naturalWidth # 0 THEN [wait |-> NoWait, resolve |-> TRUE]
  ELSE [wait |-> [fired |-> FALSE, onLoad |-> TRUE, onError |-> TRUE,
                  timer |-> "pending"],
        resolve |-> FALSE]

\* resolve() of the promise, then the .then callback of script.js:128-130, which
\* runs once, when the promise is first resolved.
Resolved(r) ==
  /\ resolveCalls' = IF r /\ resolveCalls < MaxResolve THEN resolveCalls + 1
                     ELSE resolveCalls
  /\ posterTween' = IF r /\ resolveCalls = 0 THEN "playing" ELSE posterTween

\* The browser finishes loading the poster and dispatches load.
ImgLoadEvent ==
  /\ "poster" \in dom
  /\ img' = [complete |-> TRUE, naturalWidth |-> 1]
  /\ LET r == IF wait.onLoad THEN onLoad(wait) ELSE [wait |-> wait, resolve |-> FALSE]
     IN /\ wait' = r.wait
        /\ Resolved(r.resolve)
  /\ UNCHANGED <<pageVars, btnVars, bootVars, initVars, tlVars, lbVars, modalVars>>

\* The browser fails to load the poster and dispatches error.
ImgErrorEvent ==
  /\ "poster" \in dom
  /\ img' = [complete |-> TRUE, naturalWidth |-> 0]
  /\ LET r == IF wait.onError THEN onError(wait) ELSE [wait |-> wait, resolve |-> FALSE]
     IN /\ wait' = r.wait
        /\ Resolved(r.resolve)
  /\ UNCHANGED <<pageVars, btnVars, bootVars, initVars, tlVars, lbVars, modalVars>>

\* The 1800 ms timer of script.js:49 fires.
WaitTimeout ==
  /\ wait.timer = "pending"
  /\ LET r == onTimeout([wait EXCEPT !.timer = "fired"])
     IN /\ wait' = r.wait
        /\ Resolved(r.resolve)
  /\ UNCHANGED <<img, pageVars, btnVars, bootVars, initVars, tlVars, lbVars, modalVars>>


\* MainTL's preloader tween completes: onComplete of script.js:103-105.  The
\* assignment to preloader.style raises when preloader is null; try/catch
\* swallows it.
preloaderOnComplete(d) ==
  [raised |-> FALSE, hidden |-> "preloader" \in d]

\* The main preloader timeline (script.js:78-125) runs to its end.
MainTLComplete ==
  /\ mainTL = "playing"
  /\ mainTL' = "done"
  /\ LET r == preloaderOnComplete(dom)
     IN /\ preloaderHidden' = r.hidden
        /\ raised' = (raised \/ r.raised)
  /\ UNCHANGED <<initDone, listeners, pageVars, btnVars, bootVars, imgVars, lbVars, modalVars>>

\* ------------------------------------------------------------ initialisers
\* Each initialiser yields whether it raised and the listeners it registered.

\* script.js:225-237
initButtonInteractions(d) ==
  [raised |-> FALSE, listeners |-> IF "btn" \in d THEN {"btnHover"} ELSE {}]

\* script.js:242-334: the three listeners are registered on document and window
initModal(d) ==
  [raised |-> FALSE, listeners |-> {"modalClick", "modalKey", "modalFocus"}]

\* initPosterClickToEnlarge without the guard of line 139:
\* posterWrap.addEventListener raises on a null posterWrap.
initPosterClickToEnlarge_noGuard(d) ==
  [raised |-> "posterWrap" \notin d,
   listeners |-> IF "posterWrap" \in d THEN {"posterClick"} ELSE {}]

\* script.js:136-139, 197-200
initPosterClickToEnlarge(d) ==
  IF "posterWrap" \notin d \/ "poster" \notin d
  THEN [raised |-> FALSE, listeners |-> {}]
  ELSE [raised |-> FALSE, listeners |-> {"posterClick"}]

\* script.js:206-220
initPosterScrollParallax(d, st) ==
  IF "posterWrap" \notin d THEN [raised |-> FALSE, listeners |-> {}]
  ELSE IF st THEN [raised |-> FALSE, listeners |-> {"parallax"}]
  ELSE [raised |-> FALSE, listeners |-> {}]

\* A poster tween created without paused: true starts at once.
posterTweenCreated_playing == "playing"

\* script.js:68-76: gsap.from(..., {paused: true})
posterTweenCreated == "paused"

\* script.js:62-131: the tweens are built whatever elements are missing,
\* tl.play() starts the main timeline, and the wait for the poster begins.
initPreloader(d, im) ==
  [raised |-> FALSE,
   mainTL |-> "playing",
   posterTween |-> posterTweenCreated,
   w |-> waitForImageLoad("poster" \in d, im)]

\* script.js:339-345: the five initialisers in order; an exception raised by
\* one of them ends initAll.  The .then callback of an immediately resolved
\* wait runs in the microtask that follows, before any other event.
initAll ==
  LET r1 == initButtonInteractions(dom)
      r2 == initModal(dom)
      r3 == initPosterClickToEnlarge(dom)
      r4 == initPosterScrollParallax(dom, scrollTrigger)
      r5 == initPreloader(dom, img)
      ran2 == ~r1.raised
      ran3 == ran2 /\ ~r2.raised
      ran4 == ran3 /\ ~r3.raised
      ran5 == ran4 /\ ~r4.raised
  IN /\ listeners' = r1.listeners
                     \cup (IF ran2 THEN r2.listeners ELSE {})
                     \cup (IF ran3 THEN r3.listeners ELSE {})
                     \cup (IF ran4 THEN r4.listeners ELSE {})
     /\ initDone' = (IF ~r1.raised THEN {"initButtonInteractions"} ELSE {})
                    \cup (IF ran2 /\ ~r2.raised THEN {"initModal"} ELSE {})
                    \cup (IF ran3 /\ ~r3.raised THEN {"initPosterClickToEnlarge"} ELSE {})
                    \cup (IF ran4 /\ ~r4.raised THEN {"initPosterScrollParallax"} ELSE {})
                    \cup (IF ran5 /\ ~r5.raised THEN {"initPreloader"} ELSE {})
     /\ raised' = (raised \/ r1.raised \/ (ran2 /\ r2.raised) \/ (ran3 /\ r3.raised)
                          \/ (ran4 /\ r4.raised) \/ (ran5 /\ r5.raised))
     /\ IF ran5
        THEN /\ mainTL' = r5.mainTL
             /\ wait' = r5.w.wait
             /\ resolveCalls' = IF r5.w.resolve THEN 1 ELSE 0
             /\ posterTween' = IF r5.w.resolve THEN "playing" ELSE r5.posterTween
        ELSE UNCHANGED <<mainTL, wait, resolveCalls, posterTween>>

AllInitialisers ==
  {"initButtonInteractions", "initModal", "initPosterClickToEnlarge",
   "initPosterScrollParallax", "initPreloader"}

\* -------------------------------------------------------- init trigger
\* A test that takes the timer branch whatever the ready state.
scriptReady_always(rs) == TRUE

\* script.js:347: readyState is 'complete' or 'interactive'
scriptReady(rs) == rs \in {"complete", "interactive"}

\* script.js:11-351 is evaluated: line 347 reads document.readyState.
EvalScript ==
  /\ pc = "parse"
  /\ pc' = IF scriptReady(readyState) THEN "timer" ELSE "listening"
  /\ UNCHANGED <<readyState, dclFired, initCalls, pageVars, btnVars, initVars, imgVars, tlVars,
                 lbVars, modalVars>>

\* The parser finishes: readyState becomes "interactive".
DocInteractive ==
  /\ readyState = "loading"
  /\ readyState' = "interactive"
  /\ UNCHANGED <<dclFired, pc, initCalls, pageVars, btnVars, initVars, imgVars, tlVars, lbVars, modalVars>>

\* DOMContentLoaded is dispatched; the listener of script.js:350 sets the timer.
DOMContentLoaded ==
  /\ readyState = "interactive"
  /\ ~dclFired
  /\ dclFired' = TRUE
  /\ pc' = IF pc = "listening" THEN "timer" ELSE pc
  /\ UNCHANGED <<readyState, initCalls, pageVars, btnVars, initVars, imgVars, tlVars, lbVars, modalVars>>

\* All subresources are loaded: readyState becomes "complete".
DocComplete ==
  /\ readyState = "interactive"
  /\ dclFired
  /\ readyState' = "complete"
  /\ UNCHANGED <<dclFired, pc, initCalls, pageVars, btnVars, initVars, imgVars, tlVars, lbVars, modalVars>>

\* The 40 ms timer of script.js:348/350 fires and calls initAll.
InitTimer ==
  /\ pc = "timer"
  /\ pc' = "done"
  /\ initCalls' = initCalls + 1
  /\ initAll
  /\ UNCHANGED <<readyState, dclFired, img, preloaderHidden, pageVars, btnVars, lbVars, modalVars>>

\* ---------------------------------------------------------------- lightbox
\* A guard that never finds the overlay.
lightboxExists_never == FALSE

\* script.js:144: qs('.tric-lightbox') finds an overlay in the document
lightboxExists == doc # {}

\* script.js:142-194, called from the posterWrap click listener (197-200):
\* creates overlay nextLb + 1, appends it to body and registers its three
\* close triggers.
openLightbox ==
  IF lightboxExists
  THEN UNCHANGED lbVars
  ELSE /\ nextLb < MaxLb
       /\ nextLb' = nextLb + 1
       /\ doc' = doc \cup {nextLb + 1}
       /\ escArmed' = escArmed \cup {nextLb + 1}
       /\ UNCHANGED outTL

\* script.js:175-183: closeLightbox of overlay o starts one more close timeline
closeLightbox(o, out) == [out EXCEPT ![o] = @ + 1]

\* An onComplete that leaves the overlay in the document.
outOnComplete_keep(o, d) == d

\* An onComplete that removes whatever overlay the document holds.
outOnComplete_any(o, d) == {}

\* script.js:177-179: onComplete removes lb if it still has a parent
outOnComplete(o, d) == IF o \in d THEN d \ {o} ELSE d

\* An onComplete that calls removeChild without the parentNode test and
\* outside try/catch: removeChild raises when lb is no longer a child.
outOnCompleteRaises_unguarded(o, d) == o \notin d

\* script.js:177-179: removeChild is called only while lb has a parent, and
\* inside try/catch, so onComplete raises nothing
outOnCompleteRaises(o, d) == FALSE

\* A close timeline of overlay o runs to its end.
LbOutComplete(o) ==
  /\ outTL[o] > 0
  /\ outTL' = [outTL EXCEPT ![o] = @ - 1]
  /\ doc' = outOnComplete(o, doc)
  /\ raised' = (raised \/ outOnCompleteRaises(o, doc))
  /\ UNCHANGED <<nextLb, escArmed, initDone, listeners, pageVars, btnVars, bootVars,
                 imgVars, tlVars, modalVars>>

\* script.js:188-193: the keydown listeners of the overlays, each registered
\* with {once: true}: every registered one is invoked and removed; on Escape
\* it calls closeLightbox.
escClose(k) ==
  /\ \A o \in escArmed : k = "Escape" => outTL[o] < MaxOut
  /\ outTL' = [o \in LbIds |->
                 IF o \in escArmed /\ k = "Escape"
                 THEN closeLightbox(o, outTL)[o] ELSE outTL[o]]
  /\ escArmed' = {}
  /\ UNCHANGED <<nextLb, doc>>

\* ------------------------------------------------------------------- modal
\* A lookup that returns elements although the modal root is missing.
getModalEls_always == TRUE

\* script.js:243-252: null when #detailsModal is absent
getModalEls == "modal" \in dom

\* script.js:257-269: both timelines are created, paused
buildTimelines == [openTL |-> "paused", closeTL |-> "paused"]

\* script.js:281-282 and 330-331: focusable[0].focus() when there is one
focusFirst(d, cur) == IF "closeBtn" \in d THEN "closeBtn" ELSE cur

\* A test that finds no cached timeline whatever was built.
needsBuild_always(tl) == TRUE

\* script.js:277, 288: !openTL, !closeTL
needsBuild(tl) == tl = "null"

\* script.js:271-283
openModal ==
  IF ~getModalEls
  THEN /\ warned < MaxWarn
       /\ warned' = warned + 1
       /\ UNCHANGED <<isOpen, ariaHidden, openTL, closeTL, focus, builds, lastReq>>
  ELSE /\ isOpen' = TRUE
       /\ ariaHidden' = "false"
       /\ needsBuild(openTL) => builds < MaxBuilds
       /\ builds' = IF needsBuild(openTL) THEN builds + 1 ELSE builds
       /\ LET tl == IF needsBuild(openTL) THEN buildTimelines
                    ELSE [openTL |-> openTL, closeTL |-> closeTL]
          IN /\ openTL' = "playing"
             /\ closeTL' = tl.closeTL
       /\ focus' = focusFirst(dom, focus)
       /\ lastReq' = "open"
       /\ UNCHANGED warned

\* script.js:285-293: play(0) restarts the close timeline; the callback given
\* to then() replaces the one an earlier request left.
closeModal ==
  IF ~getModalEls
  THEN UNCHANGED modalVars
  ELSE /\ needsBuild(closeTL) => builds < MaxBuilds
       /\ builds' = IF needsBuild(closeTL) THEN builds + 1 ELSE builds
       /\ LET tl == IF needsBuild(closeTL) THEN buildTimelines
                    ELSE [openTL |-> openTL, closeTL |-> closeTL]
          IN /\ closeTL' = "playing"
             /\ openTL' = tl.openTL
       /\ lastReq' = "close"
       /\ UNCHANGED <<isOpen, ariaHidden, warned, focus>>

\* A completion callback that leaves the modal marked open.
closeThen_keep(open, aria) == [isOpen |-> open, ariaHidden |-> aria]

\* A completion callback that removes the class and leaves the attribute.
closeThen_classOnly(open, aria) == [isOpen |-> FALSE, ariaHidden |-> aria]

\* script.js:289-292: the callback run when the close timeline completes
closeThen(open, aria) == [isOpen |-> FALSE, ariaHidden |-> "true"]

\* The close timeline runs to its end.
CloseTLComplete ==
  /\ closeTL = "playing"
  /\ closeTL' = "done"
  /\ LET r == closeThen(isOpen, ariaHidden)
     IN /\ isOpen' = r.isOpen
        /\ ariaHidden' = r.ariaHidden
  /\ UNCHANGED <<openTL, warned, focus, builds, lastReq, pageVars, btnVars, bootVars, initVars, imgVars, tlVars,
                 lbVars>>

\* The open timeline runs to its end.
OpenTLComplete ==
  /\ openTL = "playing"
  /\ openTL' = "done"
  /\ UNCHANGED <<isOpen, ariaHidden, closeTL, warned, focus, builds, lastReq, pageVars, btnVars, bootVars,
                 initVars, imgVars, tlVars, lbVars>>

\* Elements of the modal subtree.
InModal(e) == e \in {"modalBackdrop", "modalContent", "closeBtn"}

\* A backdrop test by ancestry in the modal instead of identity.
isBackdropTarget_ancestry(e) == InModal(e)

\* script.js:309: t === els.backdrop
isBackdropTarget(e) == e = "modalBackdrop"

\* script.js:295-315: the delegated click listener on document
docClick(e) ==
  IF e = "openBtn" THEN openModal
  ELSE IF getModalEls /\ e = "closeBtn" THEN closeModal
  ELSE IF getModalEls /\ isBackdropTarget(e) THEN closeModal
  ELSE UNCHANGED modalVars

\* A keydown listener that closes on Escape whether the modal is open or not.
modalKeydown_anyState(k) ==
  IF k = "Escape" /\ getModalEls THEN closeModal
  ELSE UNCHANGED modalVars

\* script.js:317-322: the keydown listener on window
modalKeydown(k) ==
  IF k = "Escape" /\ getModalEls /\ isOpen THEN closeModal
  ELSE UNCHANGED modalVars

\* A focusin listener that never redirects.
focusinListener_none(e) == e

\* script.js:324-333: the element that has focus after a focusin at e
focusinListener(e) ==
  IF ~getModalEls THEN e
  ELSE IF ~isOpen THEN e
  ELSE IF ~InModal(e) THEN focusFirst(dom, e)
  ELSE e

\* ----------------------------------------------------------------- buttons
\* Tween durations in hundredths of a second.
\* script.js:229: duration: 0.18
enterDuration == 18
\* script.js:232: duration: 0.28
leaveDuration == 28

\* script.js:228-230: gsap.to(btn, {y: -4, scale: 1.01, duration: 0.18})
mouseenter(tw) == Append(tw, [to |-> "lifted", left |-> enterDuration])

\* A leave tween that is shorter than the enter tween.
mouseleave_quick(tw) == Append(tw, [to |-> "rest", left |-> enterDuration - 10])

\* script.js:231-233: gsap.to(btn, {y: 0, scale: 1, duration: 0.28})
mouseleave(tw) == Append(tw, [to |-> "rest", left |-> leaveDuration])

\* The pointer enters the button.
MouseEnter ==
  /\ "btn" \in dom
  /\ ~hovering
  /\ hovering' = TRUE
  /\ IF "btnHover" \in listeners
     THEN /\ Len(tweens) < MaxTweens
          /\ tweens' = mouseenter(tweens)
     ELSE UNCHANGED tweens
  /\ UNCHANGED <<btnPose, pageVars, bootVars, initVars, imgVars, tlVars, lbVars,
                 modalVars>>

\* The pointer leaves the button.
MouseLeave ==
  /\ "btn" \in dom
  /\ hovering
  /\ hovering' = FALSE
  /\ IF "btnHover" \in listeners
     THEN /\ Len(tweens) < MaxTweens
          /\ tweens' = mouseleave(tweens)
     ELSE UNCHANGED tweens
  /\ UNCHANGED <<btnPose, pageVars, bootVars, initVars, imgVars, tlVars, lbVars,
                 modalVars>>

\* One hundredth of a second of animation: every tween in flight renders, in
\* start order, and those that reach their end are dropped.
FrameTick ==
  /\ tweens # <<>>
  /\ LET last == tweens[Len(tweens)]
         aged == [i \in 1..Len(tweens) |-> [tweens[i] EXCEPT !.left = @ - 1]]
     IN /\ btnPose' = IF last.left = 1 THEN last.to ELSE "moving"
        /\ tweens' = SelectSeq(aged, LAMBDA t : t.left > 0)
  /\ UNCHANGED <<hovering, pageVars, bootVars, initVars, imgVars, tlVars, lbVars,
                 modalVars>>

\* ------------------------------------------------------------- user events
\* Elements a click can land on: [el, lb], lb the overlay of a lightbox part.
ClickTargets ==
  {[el |-> e, lb |-> 0] :
     e \in (dom \cap {"openBtn", "closeBtn", "posterWrap"})
           \cup (IF "modal" \in dom THEN {"modalBackdrop", "modalContent"} ELSE {})
           \cup {"body"}}
  \cup {[el |-> e, lb |-> o] : e \in {"lbBackdrop", "lbImg"}, o \in doc}

\* A click on t: the listeners on the target's path (script.js:197-200,
\* 186-187), then the document listener (295-315).
Click(t) ==
  /\ t \in ClickTargets
  /\ IF t.el = "posterWrap" /\ "posterClick" \in listeners
     THEN openLightbox
     ELSE IF t.el \in {"lbBackdrop", "lbImg"}
     THEN /\ outTL[t.lb] < MaxOut
          /\ outTL' = closeLightbox(t.lb, outTL)
          /\ UNCHANGED <<nextLb, doc, escArmed>>
     ELSE UNCHANGED lbVars
  /\ IF "modalClick" \in listeners THEN docClick(t.el) ELSE UNCHANGED modalVars
  /\ UNCHANGED <<pageVars, btnVars, bootVars, initVars, imgVars, tlVars>>

Keys == {"Escape", "Enter"}

\* A key press: the window keydown listeners in registration order
\* (script.js:317-322, then 188-193 of every overlay still registered).
KeyDown(k) ==
  /\ k \in Keys
  /\ IF "modalKey" \in listeners THEN modalKeydown(k) ELSE UNCHANGED modalVars
  /\ escClose(k)
  /\ UNCHANGED <<pageVars, btnVars, bootVars, initVars, imgVars, tlVars>>

FocusTargets ==
  {"outside"} \cup (dom \cap {"closeBtn"})
  \cup (IF "modal" \in dom THEN {"modalContent"} ELSE {})

\* Focus moves to e (Tab, click or script): focusin is dispatched at e.
FocusIn(e) ==
  /\ e \in FocusTargets
  /\ focus' = IF "modalFocus" \in listeners THEN focusinListener(e) ELSE e
  /\ UNCHANGED <<isOpen, ariaHidden, openTL, closeTL, warned, builds, lastReq, pageVars, btnVars, bootVars,
                 initVars, imgVars, tlVars, lbVars>>

\* ----------------------------------------------------------- specification
InitState(pages, plugins) ==
  /\ dom \in pages
  /\ scrollTrigger \in plugins
  /\ readyState = "loading"
  /\ dclFired = FALSE
  /\ pc = "parse"
  /\ initCalls = 0
  /\ initDone = {}
  /\ raised = FALSE
  /\ listeners = {}
  /\ img = [complete |-> FALSE, naturalWidth |-> 0]
  /\ wait = NoWait
  /\ resolveCalls = 0
  /\ posterTween = "none"
  /\ mainTL = "none"
  /\ preloaderHidden = FALSE
  /\ nextLb = 0
  /\ doc = {}
  /\ escArmed = {}
  /\ outTL = [o \in LbIds |-> 0]
  /\ isOpen = FALSE
  /\ ariaHidden = "true"
  /\ openTL = "null"
  /\ closeTL = "null"
  /\ warned = 0
  /\ focus = "body"
  /\ builds = 0
  /\ lastReq = "none"
  /\ hovering = FALSE
  /\ tweens = <<>>
  /\ btnPose = "rest"

\* The script's own steps from evaluation to initAll.
Boot ==
  \/ EvalScript
  \/ DocInteractive
  \/ DOMContentLoaded
  \/ DocComplete
  \/ InitTimer

\* Image events, the wait's timer and the preloader timeline.
Background ==
  \/ ImgLoadEvent
  \/ ImgErrorEvent
  \/ WaitTimeout
  \/ MainTLComplete

UserEvents ==
  \/ \E t \in ClickTargets : Click(t)
  \/ \E k \in Keys : KeyDown(k)
  \/ \E e \in FocusTargets : FocusIn(e)

Completions ==
  \/ \E o \in LbIds : LbOutComplete(o)
  \/ CloseTLComplete
  \/ OpenTLComplete

\* Page load on any markup: the script is evaluated, initAll runs, the poster
\* loads, fails or stalls, and the preloader timeline runs; no user input.
LoadInit == InitState(AnyPage, BOOLEAN)

LoadNext == Boot \/ Background

LoadSpec == LoadInit /\ [][LoadNext]_vars

\* Timers fire, timelines reach their end, the document finishes loading;
\* the poster's load and error events may never come.
LoadFair ==
  /\ WF_vars(Boot)
  /\ WF_vars(WaitTimeout)
  /\ WF_vars(MainTLComplete)

LoadLive == LoadSpec /\ LoadFair

\* Pointer movement over a button, on the full page and on a page without
\* buttons.
ButtonPages == {Elements, Elements \ {"btn"}}

ButtonInit == InitState(ButtonPages, {TRUE})

ButtonNext == Boot \/ MouseEnter \/ MouseLeave \/ FrameTick

ButtonSpec == ButtonInit /\ [][ButtonNext]_vars

\* User interaction with the lightbox and the modal.  The Background actions
\* read and write only img, wait, resolveCalls, posterTween, mainTL,
\* preloaderHidden and raised, which no action below reads, so they are left
\* out of this next-state relation.
Init == InitState(InteractivePages, {TRUE})

Next == Boot \/ UserEvents \/ Completions

Spec == Init /\ [][Next]_vars

\* Pages that carry the lightbox or the modal, not both: the two features
\* share no state, and the liveness checks follow each on its own.
LivePages ==
  {d \in InteractivePages : ~({"poster", "posterWrap", "modal"} \subseteq d)}

\* Every timeline that was started reaches its end.
Fair ==
  /\ WF_vars(Boot)
  /\ \A o \in LbIds : WF_vars(LbOutComplete(o))
  /\ WF_vars(CloseTLComplete)
  /\ WF_vars(OpenTLComplete)

LiveInit == InitState(LivePages, {TRUE})

LiveSpec == LiveInit /\ [][Next]_vars /\ Fair

\* ------------------------------------------------------------------ claims

\* C1: a wait on an image that is not already loaded calls resolve exactly
\* once: never twice, whichever of load, error and timeout comes first and
\* whatever follows; once a handler has fired or the timer has fired or been
\* cleared it has resolved; and while the timer is pending it will resolve.
C1_WaitResolvesExactlyOnce ==
  /\ [](resolveCalls <= 1)
  /\ []((wait.fired \/ wait.timer \in {"fired", "cleared"}) => resolveCalls = 1)
  /\ (wait.timer = "pending") ~> (resolveCalls = 1)

\* The timeout fired first and a load event followed it.
C1_Witness ==
  /\ wait.timer = "fired"
  /\ img.complete /\ img.naturalWidth = 1
  /\ resolveCalls = 1

\* C8: once initPreloader has run, the poster entrance tween is eventually
\* played, whatever the poster does.
C8_PosterEventuallyPlays ==
  ("initPreloader" \in initDone) ~> (posterTween = "playing")

\* The poster never fired load or error and the tween plays after the timeout.
C8_Witness ==
  /\ "poster" \in dom
  /\ ~img.complete
  /\ wait.timer = "fired"
  /\ posterTween = "playing"

\* C9: the poster tween is paused until the wait has resolved, and the main
\* timeline is started by initPreloader whether or not the wait has resolved.
C9_PosterAfterWaitMainAtInit ==
  /\ (posterTween = "playing") => (resolveCalls >= 1)
  /\ ("initPreloader" \in initDone /\ resolveCalls = 0) => (posterTween = "paused")
  /\ ("initPreloader" \in initDone) => (mainTL \in {"playing", "done"})

\* The main timeline has run to its end while the wait is still pending.
C9_Witness ==
  /\ mainTL = "done"
  /\ wait.timer = "pending"
  /\ resolveCalls = 0
  /\ posterTween = "paused"

\* C10: whatever elements are absent, initAll runs its five initialisers
\* without raising, no later callback raises, and every feature whose own
\* elements are present is initialised.
C10_InitAllDegradesGracefully ==
  /\ ~raised
  /\ (pc = "done") =>
       /\ initDone = AllInitialisers
       /\ {"modalClick", "modalKey", "modalFocus"} \subseteq listeners
       /\ ("btn" \in dom) => ("btnHover" \in listeners)
       /\ ({"poster", "posterWrap"} \subseteq dom) => ("posterClick" \in listeners)
       /\ ("posterWrap" \in dom /\ scrollTrigger) => ("parallax" \in listeners)
       /\ mainTL \in {"playing", "done"}
       /\ posterTween \in {"paused", "playing"}

\* initAll has run on a page without poster wrapper and preloader, and the
\* preloader timeline has completed.
C10_Witness ==
  /\ pc = "done"
  /\ "posterWrap" \notin dom
  /\ "preloader" \notin dom
  /\ "btn" \in dom
  /\ "btnHover" \in listeners
  /\ mainTL = "done"

PosterClick == Click([el |-> "posterWrap", lb |-> 0])

\* C2: the document never holds more than one overlay; a poster click with no
\* overlay creates exactly one, and a poster click while one exists (closing
\* or not) changes nothing.
C2_AtMostOneOverlay ==
  /\ [](Cardinality(doc) <= 1)
  /\ [][(PosterClick /\ "posterClick" \in listeners) =>
          IF doc = {}
          THEN nextLb' = nextLb + 1 /\ doc' = {nextLb'}
          ELSE UNCHANGED vars]_vars

\* A second overlay was created after the first was removed, and is closing.
C2_Witness ==
  /\ nextLb = 2
  /\ doc = {2}
  /\ outTL[2] > 0

\* C3: a backdrop click, an image click and Escape (while the overlay's
\* listener is registered) each start one close timeline of the overlay;
\* the completion of a close timeline of an overlay in the document leaves
\* no overlay in the document; and an overlay that is closing is followed by
\* a document without overlays.
C3_CloseConverges ==
  /\ [][\A o \in doc :
          (\/ Click([el |-> "lbBackdrop", lb |-> o])
           \/ Click([el |-> "lbImg", lb |-> o])
           \/ (KeyDown("Escape") /\ o \in escArmed))
          => outTL'[o] = outTL[o] + 1]_vars
  /\ [][\A o \in doc : LbOutComplete(o) => doc' = {}]_vars
  /\ (\E o \in doc : outTL[o] > 0) ~> (doc = {})

\* Overlay 1 was created and closed, and its close timeline has completed.
C3_Witness ==
  /\ nextLb = 1
  /\ doc = {}
  /\ outTL[1] = 0

\* C4: with the modal present, an open request sets is-open and
\* aria-hidden="false" in the same step; is-open and aria-hidden="false" are
\* withdrawn only by the step in which the close timeline completes; and a
\* close request on an open modal is followed by a modal without is-open and
\* with aria-hidden="true".
C4_ModalOpenThenClose ==
  /\ [][(Click([el |-> "openBtn", lb |-> 0]) /\ "modal" \in dom
           /\ "modalClick" \in listeners)
        => (isOpen' /\ ariaHidden' = "false")]_vars
  /\ [][((isOpen /\ ~isOpen') \/ (ariaHidden = "false" /\ ariaHidden' = "true"))
        => (closeTL = "playing" /\ closeTL' = "done")]_vars
  /\ (isOpen /\ closeTL = "playing") ~> (~isOpen /\ ariaHidden = "true")

\* The modal was opened, then closed, and the close timeline has completed.
C4_Witness ==
  /\ openTL = "done"
  /\ closeTL = "done"
  /\ ~isOpen
  /\ ariaHidden = "true"

\* C5: a click on the modal backdrop itself calls closeModal (the close
\* timeline is played from its start, nothing else of the modal changes); a
\* click on the modal content changes nothing of the modal.
C5_BackdropExactMatch ==
  /\ [][(Click([el |-> "modalBackdrop", lb |-> 0]) /\ "modalClick" \in listeners)
        => (closeTL' = "playing" /\ UNCHANGED <<isOpen, ariaHidden, warned, focus>>)]_vars
  /\ [][Click([el |-> "modalContent", lb |-> 0]) => UNCHANGED modalVars]_vars

\* A modal without close button, not open, whose close timeline is playing:
\* Escape closes only an open modal, so the request was a backdrop click.
C5_Witness ==
  /\ "modal" \in dom
  /\ "closeBtn" \notin dom
  /\ ~isOpen
  /\ openTL = "done"
  /\ closeTL = "playing"

\* C6: a focusin outside the modal while it carries is-open ends with focus
\* on the modal's first focusable descendant (when it has one); a focusin
\* while it does not carry is-open leaves focus where it went.
C6_FocusTrap ==
  /\ [][(FocusIn("outside") /\ "modalFocus" \in listeners /\ "modal" \in dom
           /\ isOpen /\ "closeBtn" \in dom)
        => focus' = "closeBtn"]_vars
  /\ [][\A e \in FocusTargets : (FocusIn(e) /\ ~isOpen) => focus' = e]_vars

\* The modal was opened and closed again, and focus then moved outside it.
C6_Witness ==
  /\ "closeBtn" \in dom
  /\ "modal" \in dom
  /\ openTL = "done"
  /\ ~isOpen
  /\ focus = "outside"

\* C7: with the modal root absent, the modal's class, attribute and timelines
\* never change and nothing is raised.
C7_AbsentModalIgnored ==
  ("modal" \notin dom) =>
     /\ ~isOpen
     /\ ariaHidden = "true"
     /\ openTL = "null"
     /\ closeTL = "null"
     /\ ~raised

\* An open request was made on a page without modal root (and warned about).
C7_Witness ==
  /\ "modal" \notin dom
  /\ warned = 1

\* C11: when the pointer has left the button and no hover tween is in flight
\* any more, the button is at rest (y = 0, scale = 1), however close to the
\* enter the leave came.
C11_HoverReturnsToRest ==
  ("btnHover" \in listeners /\ ~hovering /\ tweens = <<>>) => btnPose = "rest"

\* The pointer left while the enter tween was still running: the enter tween
\* renders its last frame while the leave tween is in flight.
C11_Witness ==
  /\ ~hovering
  /\ Len(tweens) = 2
  /\ tweens[1].to = "lifted" /\ tweens[1].left = 1
  /\ tweens[2].to = "rest"

\* C12: initAll is called at most once, it is called in every run, and it is
\* never called while document.readyState is "loading", whether the script
\* is evaluated before or after the document becomes ready.
C12_InitAllOnceWhenReady ==
  /\ [](initCalls <= 1)
  /\ [](initCalls >= 1 => readyState \in {"interactive", "complete"})
  /\ <>(initCalls = 1)

\* initAll has run once, after DOMContentLoaded and before the document
\* became complete.
C12_Witness ==
  /\ initCalls = 1
  /\ dclFired
  /\ readyState = "interactive"
  /\ initDone = AllInitialisers

\* C13: while an overlay exists, its Escape trigger stays armed until Escape
\* itself is pressed: the only step that unregisters the escClose listener of
\* an overlay in the document is one that invokes that overlay's close
\* routine, whatever other keys are pressed.
C13_EscapeStaysArmed ==
  [][\A o \in doc \cap escArmed :
       (o \notin escArmed') => outTL'[o] = outTL[o] + 1]_vars

\* C14: an open request preempts a close still in flight: when the most
\* recent request that reached the modal is an open and neither timeline is
\* playing any more, the modal carries is-open and aria-hidden="false".
C14_OpenPreemptsClose ==
  (lastReq = "open" /\ openTL # "playing" /\ closeTL # "playing")
     => (isOpen /\ ariaHidden = "false")

\* C15: however many close triggers fire for one overlay, it is removed from
\* the document once: the first close-animation completion removes it, it
\* never comes back, and every later completion finds it absent, changes
\* nothing in the document and raises no error.
C15_RemovedOnceLaterNoOp ==
  /\ [](~raised)
  /\ [][\A o \in LbIds :
         /\ (LbOutComplete(o) /\ o \in doc) => doc' = doc \ {o}
         /\ (LbOutComplete(o) /\ o \notin doc) => (doc' = doc /\ ~raised')
         /\ (o <= nextLb /\ o \notin doc) => o \notin doc']_vars

\* Overlay 1 was closed by two triggers; the first completion removed it and
\* the second close timeline is still in flight.
C15_Witness ==
  /\ nextLb >= 1
  /\ 1 \notin doc
  /\ outTL[1] > 0

\* C16: with the modal root present, buildTimelines creates the open and close
\* timelines at most once, in the first open or close request; both exist
\* from then on, and every later request plays the cached timeline of its
\* kind from the start, leaves the other as it is and builds nothing.
C16_TimelinesBuiltOnce ==
  /\ [](builds <= 1)
  /\ [](IF builds = 0 THEN openTL = "null" /\ closeTL = "null"
                      ELSE openTL # "null" /\ closeTL # "null")
  /\ [][builds' # builds => (lastReq = "none" /\ lastReq' # "none")]_vars
  /\ [][(Click([el |-> "openBtn", lb |-> 0]) /\ "modalClick" \in listeners
           /\ builds = 1)
        => (openTL' = "playing" /\ closeTL' = closeTL /\ builds' = 1)]_vars
  /\ [][(Click([el |-> "closeBtn", lb |-> 0]) /\ "modalClick" \in listeners
           /\ builds = 1)
        => (closeTL' = "playing" /\ openTL' = openTL /\ builds' = 1)]_vars

\* The modal was opened, closed, and opened again after the close timeline
\* had completed: the second open replays the timeline built by the first.
C16_Witness ==
  /\ builds = 1
  /\ lastReq = "open"
  /\ openTL = "playing"
  /\ closeTL = "done"

\* C17: an Escape key press calls closeModal exactly when the modal root is
\* present and carries is-open at that moment (the close timeline is then
\* played from its start); an Escape press while the modal lacks is-open
\* plays no timeline and changes nothing of the modal.
C17_EscapeClosesOnlyOpenModal ==
  [][(KeyDown("Escape") /\ "modalKey" \in listeners)
     => IF "modal" \in dom /\ isOpen
        THEN closeTL' = "playing" /\ lastReq' = "close"
        ELSE UNCHANGED modalVars]_vars

\* On a page whose modal has no close button, the open timeline has finished
\* and a close request came while the modal was open.
C17_Witness ==
  /\ "modal" \in dom
  /\ "closeBtn" \notin dom
  /\ isOpen
  /\ openTL = "done"
  /\ closeTL = "playing"
  /\ lastReq = "close"

\* C18: from markup without is-open and with aria-hidden="true", in every
\* reachable state the modal carries is-open if and only if its aria-hidden
\* attribute is "false".
C18_ClassMatchesAria == isOpen <=> (ariaHidden = "false")

\* An open request came while a close timeline was in flight, and that close
\* timeline has completed since: class and attribute were both written by
\* openModal and then both by the completion callback.
C18_Witness ==
  /\ lastReq = "open"
  /\ closeTL = "done"
  /\ ~isOpen
  /\ ariaHidden = "true"

\* C19: a close routine acts on the overlay it was created with only.  An
\* overlay leaves the document only when a close timeline of its own
\* completes; a completion of another overlay's close timeline neither
\* removes it nor touches its close timelines; and a close timeline of an
\* overlay is started only by a click on that overlay's backdrop or image or
\* by an Escape press that reaches that overlay's own listener.
C19_CloseActsOnOwnOverlay ==
  [][\A p \in LbIds :
       /\ (p \in doc /\ p \notin doc')
            => (outTL[p] > 0 /\ outTL'[p] = outTL[p] - 1)
       /\ \A o \in LbIds \ {p} :
            LbOutComplete(o) => ((p \in doc <=> p \in doc') /\ outTL'[p] = outTL[p])
       /\ (outTL'[p] > outTL[p])
            => \/ \E e \in {"lbBackdrop", "lbImg"} : Click([el |-> e, lb |-> p])
               \/ (KeyDown("Escape") /\ p \in escArmed)]_vars

\* Overlay 2 was opened after overlay 1 had been removed, while a close
\* timeline of overlay 1 is still in flight and its Escape listener is still
\* registered.
C19_Witness ==
  /\ doc = {2}
  /\ outTL[1] > 0
  /\ 1 \in escArmed

\* C20: once the wait has resolved, neither the load listener nor the error
\* listener is registered and no timer is pending; when it resolved at once
\* (image missing, or complete with a natural width) none of them was ever
\* registered.
C20_NothingLeftAfterResolve ==
  (resolveCalls >= 1) =>
     /\ ~wait.onLoad
     /\ ~wait.onError
     /\ wait.timer # "pending"
     /\ ~wait.fired => wait = NoWait

\* The poster's load or error event came before the timeout: the listener
\* resolved the wait and cleared the timer.
C20_Witness ==
  /\ resolveCalls = 1
  /\ wait.fired
  /\ wait.timer = "cleared"

====
